---- MODULE Spec2Model ----
(***************************************************************************)
(* A model of cwltool/command_line_tool.py: the job cache of               *)
(* CommandLineTool.job and its lockfile protocol, the cache key, runner    *)
(* selection (make_job_runner), reverse mapping of output paths            *)
(* (revmap_file) and reader registration against the mutation manager.     *)
(*                                                                         *)
(* The module holds several specifications over one set of variables; each *)
(* specification drives one group of variables and leaves the others at    *)
(* their initial value:                                                    *)
(*   SpecCache   concurrent preparations for one cache key                 *)
(*   SpecRunner  successive prepare calls on one tool object: the cache    *)
(*               key and make_job_runner                                   *)
(*   SpecRevmap  revmap_file on one output descriptor                      *)
(*   SpecMutation  reader and mutation registration of concurrent jobs     *)
(*   SpecCollect collect_output_ports and collect_output on one port       *)
(*   SpecPrepare the validations of prepare before the job is yielded     *)
(*   SpecCmdline the assembly of the command line                          *)
(*   SpecStage   the path mapper, check_adjust and the staged listing      *)
(*   SpecRegister  the registrations of one prepare                        *)
(*   SpecExpression  ExpressionJob.run                                    *)
(***************************************************************************)
EXTENDS Integers, Sequences, FiniteSets, TLC

VARIABLES
    \* ---- job cache (SpecCache) ----
    statusFile,     \* content of {cachedir}/{cachekey}.status
    cacheDir,       \* state of the directory {cachedir}/{cachekey}
    lock,           \* per preparation: the advisory lock it holds on the status file
    pc,             \* per preparation: position in CommandLineTool.job and its job
    cacheOn,        \* per preparation: runtimeContext.cachedir and enableReuse (all
                    \* preparations are of one tool in one run: one value)
    jobstatus,      \* per preparation: the local jobstatus read at line 533
    sawDir,         \* per preparation: os.path.isdir(jobcache) as evaluated at line 535
    yielded,        \* per preparation: the sequence of jobs the generator yielded
    built,          \* per preparation: a backend job object was constructed (line 583)
    wrapped,        \* per preparation: output_callbacks is update_status_output_callback
    processStatus,  \* per preparation: the status its backend job finished with
    cbCalls,        \* per preparation: statuses the caller's output callback received
    collectDir,     \* per preparation: what CallbackJob.run found in the cache directory
    ranCb,          \* per preparation: CallbackJob.run has returned or raised
    closedLock,     \* per preparation: the generator ran line 546 after the yield
    \* ---- runner selection and cache key (SpecRunner) ----
    requirements,   \* self.requirements, a list of requirement objects
    original_requirements,   \* self.original_requirements, copied at construction
    hints,          \* self.hints
    use_container,  \* runtimeContext.use_container
    singularity,    \* runtimeContext.singularity
    user_space_docker_cmd,   \* runtimeContext.user_space_docker_cmd is set
    default_container,       \* runtimeContext.default_container
    find_default_container,  \* what runtimeContext.find_default_container gives
    runner,         \* what the last make_job_runner returned or raised
    keys,           \* the cache keys computed by the successive prepare calls
    rpc,            \* position of the current prepare call
    \* ---- reverse mapping (SpecRevmap) ----
    rv_f,           \* the output descriptor handed to revmap_file
    rv_pm,          \* builder.pathmapper
    rv_link,        \* the host file outdir/x is a symlink that leaves outdir
    rv_out,         \* the descriptor after revmap_file, and how the call ended
    rv_pc,
    \* ---- mutation manager (SpecMutation) ----
    mm_readers,     \* MutationManager: per location, the jobs registered as readers
    mm_mutator,     \* MutationManager: per location, the job registered as mutator
    mj_pc,          \* per job: not prepared, yielded, failed in prepare, collected
    mj_readers,     \* per job: the keys of the readers dict of line 741
    mj_muts,        \* per job: the muts set of line 742
    mj_outcome,     \* per job: how collect_output_ports ended
    \* ---- output collection (SpecCollect) ----
    co_port,        \* the output port schema: its type and whether it has a format
    co_r,           \* the glob hits of the port, in collation order
    co_eval,        \* the value of outputEval, or NoEval when the port has none
    co_sf,          \* the secondaryFiles entry of the port and what the job left
    co_differs,     \* builder.outdir is not the host output directory
    co_cc,          \* runtimeContext.compute_checksum
    co_rcode,       \* the exit code of the job
    co_caller,      \* who called collect_output_ports
    co_out,         \* what collection did and how it ended
    co_pc,
    \* ---- validation in prepare (SpecPrepare) ----
    pr_tool,    \* the tool's stdout, stderr, ToolTimeLimit and NetworkAccess, as they evaluate
    pr_cache,    \* the job cache: off, or what the lookup finds
    pr_pc,
    pr_evaluated,    \* which of the four fields prepare has evaluated
    pr_yielded,    \* the jobs the generator yielded
    pr_error,    \* the exception prepare raised
    pr_cbCalls,   \* how often the output callback was invoked
    \* ---- command line assembly (SpecCmdline) ----
    cl_bindings,    \* builder.bindings: per binding the tokens generate_arg gives and its shellQuote
    cl_shell,    \* the tool has a ShellCommandRequirement
    cl_out,    \* j.command_line
    cl_pc,
    \* ---- staging in prepare (SpecStage) ----
    st_files,    \* builder.files: per location the basename and class of the input descriptor
    st_listing,    \* the evaluated InitialWorkDirRequirement listing (initialWorkdir)
    st_pm,    \* builder.pathmapper: per location the target and type
    st_out,    \* the descriptors of builder.files after check_adjust
    st_err,    \* the exception staging raised
    st_pc,
    \* ---- registration of one prepare (SpecRegister) ----
    rg_listing,    \* j.generatefiles["listing"] of the job being prepared
    rg_files,    \* builder.files of the job being prepared
    rg_inplace,   \* j.inplace_update of the job being prepared
    \* ---- ExpressionJob (SpecExpression) ----
    ex_callback,    \* self.output_callback is set
    ex_eval,    \* what builder.do_eval(self.script) gives: a value or an exception
    ex_behaviour,    \* per status, what the output callback does when invoked with it
    ex_calls,    \* the invocations of the output callback, in order
    ex_end,    \* how run ended
    ex_pc

cacheVars == <<statusFile, cacheDir, lock, pc, cacheOn, jobstatus, sawDir, yielded,
               built, wrapped, processStatus, cbCalls, collectDir, ranCb, closedLock>>

runVars == <<requirements, original_requirements, hints, use_container, singularity, user_space_docker_cmd,
             default_container, find_default_container, runner, keys, rpc>>

revVars == <<rv_f, rv_pm, rv_link, rv_out, rv_pc>>

mmVars == <<mm_readers, mm_mutator, mj_pc, mj_readers, mj_muts, mj_outcome>>

coVars == <<co_port, co_r, co_eval, co_sf, co_differs, co_cc, co_rcode, co_caller,
            co_out, co_pc>>

prVars == <<pr_tool, pr_cache, pr_pc, pr_evaluated, pr_yielded, pr_error, pr_cbCalls>>

clVars == <<cl_bindings, cl_shell, cl_out, cl_pc>>

stVars == <<st_files, st_listing, st_pm, st_out, st_err, st_pc>>

rgVars == <<rg_listing, rg_files, rg_inplace>>

exVars == <<ex_callback, ex_eval, ex_behaviour, ex_calls, ex_end, ex_pc>>

vars == <<cacheVars, runVars, revVars, mmVars, coVars, prVars, clVars, stVars, rgVars, exVars>>

\* What each specification leaves alone.
notCache == <<runVars, revVars, mmVars, coVars, prVars, clVars, stVars, rgVars, exVars>>

notRunner == <<cacheVars, revVars, mmVars, coVars, prVars, clVars, stVars, rgVars, exVars>>

notRevmap == <<cacheVars, runVars, mmVars, coVars, prVars, clVars, stVars, rgVars, exVars>>

notMutation == <<cacheVars, runVars, revVars, coVars, prVars, clVars, stVars, rgVars, exVars>>

notCollect == <<cacheVars, runVars, revVars, mmVars, prVars, clVars, stVars, rgVars, exVars>>

notPrepare == <<cacheVars, runVars, revVars, mmVars, coVars, clVars, stVars, rgVars, exVars>>

notCmdline == <<cacheVars, runVars, revVars, mmVars, coVars, prVars, stVars, rgVars, exVars>>

notStage == <<cacheVars, runVars, revVars, mmVars, coVars, prVars, clVars, rgVars, exVars>>

notRegister == <<cacheVars, runVars, revVars, mmVars, coVars, prVars, clVars, stVars, exVars>>

notExpression == <<cacheVars, runVars, revVars, mmVars, coVars, prVars, clVars, stVars, rgVars>>

(***************************************************************************)
(* Bounds                                                                  *)
(***************************************************************************)
NProc == 2

\* How many times prepare is called on the tool object.
MaxPrepares == 2

\* The longest output path, in segments.
MaxSegs == 3

\* Jobs that share the mutation manager.
NJobs == 2

\* The longest staged listing (j.generatefiles["listing"]).
MaxListing == 2

\* The most command-line bindings of a tool.
MaxBindings == 2

Procs == 1..NProc

(***************************************************************************)
(* The value each group of variables keeps under the other specifications. *)
(***************************************************************************)
IdleCache ==
    /\ statusFile = "" /\ cacheDir = "absent"
    /\ lock = <<>> /\ pc = <<>> /\ cacheOn = <<>> /\ jobstatus = <<>>
    /\ sawDir = <<>> /\ yielded = <<>> /\ built = <<>> /\ wrapped = <<>>
    /\ processStatus = <<>> /\ cbCalls = <<>> /\ collectDir = <<>>
    /\ ranCb = <<>> /\ closedLock = <<>>

IdleRunner ==
    /\ requirements = <<>> /\ original_requirements = <<>> /\ hints = <<>>
    /\ use_container = FALSE /\ singularity = FALSE
    /\ user_space_docker_cmd = FALSE
    /\ default_container = "None" /\ find_default_container = "absent"
    /\ runner = "none" /\ keys = <<>> /\ rpc = "idle"

IdleRevmap ==
    /\ rv_f = <<>> /\ rv_pm = <<>> /\ rv_link = FALSE /\ rv_out = <<>>
    /\ rv_pc = "idle"

IdleMutation ==
    /\ mm_readers = <<>> /\ mm_mutator = <<>> /\ mj_pc = <<>>
    /\ mj_readers = <<>> /\ mj_muts = <<>> /\ mj_outcome = <<>>

IdleCollect ==
    /\ co_port = <<>> /\ co_r = <<>> /\ co_eval = <<>> /\ co_sf = <<>>
    /\ co_differs = FALSE /\ co_cc = "None" /\ co_rcode = "0"
    /\ co_caller = "none" /\ co_out = <<>> /\ co_pc = "idle"

IdlePrepare ==
    /\ pr_tool = <<>>
    /\ pr_cache = "off"
    /\ pr_pc = "idle"
    /\ pr_evaluated = {}
    /\ pr_yielded = <<>>
    /\ pr_error = "none"
    /\ pr_cbCalls = <<>>

IdleCmdline ==
    /\ cl_bindings = <<>>
    /\ cl_shell = FALSE
    /\ cl_out = <<>>
    /\ cl_pc = "idle"

IdleStage ==
    /\ st_files = <<>>
    /\ st_listing = <<>>
    /\ st_pm = <<>>
    /\ st_out = <<>>
    /\ st_err = "none"
    /\ st_pc = "idle"

IdleRegister ==
    /\ rg_listing = <<>>
    /\ rg_files = <<>>
    /\ rg_inplace = FALSE

IdleExpression ==
    /\ ex_callback = FALSE
    /\ ex_eval = "none"
    /\ ex_behaviour = <<>>
    /\ ex_calls = <<>>
    /\ ex_end = "none"
    /\ ex_pc = "idle"


(***************************************************************************)
(* The job cache                                                           *)
(***************************************************************************)

\* The status tokens a job can finish with.
ProcessStatuses == {"success", "permanentFail", "temporaryFail"}

\* What the status file can hold: empty right after creation by open(.., "a+").
StatusValues == {""} \cup ProcessStatuses

\* The cache directory: absent, freshly recreated, being written by a running
\* job, or holding the complete outputs of a job that finished with success.
DirStates == {"absent", "empty", "partial", "full"}

\* States a cache a previous run left behind can be in.  A status file that
\* reads success next to a missing directory is the case line 535 tests for.
PriorCache ==
    { <<"", "absent">>, <<"success", "full">>, <<"success", "absent">>,
      <<"permanentFail", "partial">>, <<"temporaryFail", "empty">> }

\* shared_file_lock: a shared lock is granted unless another holder is exclusive.
SharedLockFree(p) == \A q \in Procs \ {p} : lock[q] # "exclusive"

\* upgrade_lock: the exclusive lock is granted once no other holder is left.
ExclusiveLockFree(p) == \A q \in Procs \ {p} : lock[q] = "none"

\* The test with the status left out.
CacheHit_AnyStatus(isdir, status) == isdir

\* line 535: the cache-hit test.
CacheHit(isdir, status) == isdir /\ status = "success"

InitCache ==
    /\ \E c \in PriorCache : statusFile = c[1] /\ cacheDir = c[2]
    /\ lock = [p \in Procs |-> "none"]
    /\ pc = [p \in Procs |-> "start"]
    /\ \E reuse \in BOOLEAN : cacheOn = [p \in Procs |-> reuse]
    /\ jobstatus = [p \in Procs |-> "unread"]
    /\ sawDir = [p \in Procs |-> FALSE]
    /\ yielded = [p \in Procs |-> <<>>]
    /\ built = [p \in Procs |-> FALSE]
    /\ wrapped = [p \in Procs |-> FALSE]
    /\ processStatus = [p \in Procs |-> "none"]
    /\ cbCalls = [p \in Procs |-> <<>>]
    /\ collectDir = [p \in Procs |-> "none"]
    /\ ranCb = [p \in Procs |-> FALSE]
    /\ closedLock = [p \in Procs |-> FALSE]

\* lines 423-429 and 579: without runtimeContext.cachedir and enableReuse the
\* cache is not consulted and no status file is opened.
job_start_nocache(p) ==
    /\ UNCHANGED notCache
    /\ pc[p] = "start"
    /\ ~cacheOn[p]
    /\ pc' = [pc EXCEPT ![p] = "build"]
    /\ UNCHANGED <<statusFile, cacheDir, lock, cacheOn, jobstatus, sawDir, yielded, built,
                   wrapped, processStatus, cbCalls, collectDir, ranCb, closedLock>>

\* lines 423-547, with the cache on: compute the key, open the status file,
\* take the shared lock, read the status and test the directory; on a hit yield
\* the CallbackJob (the generator is then suspended at line 544 with the shared
\* lock held).
job_lookup(p) ==
    /\ UNCHANGED notCache
    /\ pc[p] = "start"
    /\ cacheOn[p]
    /\ SharedLockFree(p)
    /\ lock' = [lock EXCEPT ![p] = "shared"]
    /\ jobstatus' = [jobstatus EXCEPT ![p] = statusFile]
    /\ sawDir' = [sawDir EXCEPT ![p] = (cacheDir # "absent")]
    /\ IF CacheHit(cacheDir # "absent", statusFile)
         THEN /\ yielded' = [yielded EXCEPT ![p] = Append(@, "CallbackJob")]
              /\ pc' = [pc EXCEPT ![p] = "hit"]
         ELSE /\ pc' = [pc EXCEPT ![p] = "miss"]
              /\ UNCHANGED yielded
    /\ UNCHANGED <<statusFile, cacheDir, cacheOn, built, wrapped, processStatus,
                   cbCalls, collectDir, ranCb, closedLock>>

\* line 555, first half: upgrade_lock converts the lock; the conversion gives up
\* the shared lock before it waits for the exclusive one.
job_upgrade_request(p) ==
    /\ UNCHANGED notCache
    /\ pc[p] = "miss"
    /\ lock' = [lock EXCEPT ![p] = "none"]
    /\ pc' = [pc EXCEPT ![p] = "upgrading"]
    /\ UNCHANGED <<statusFile, cacheDir, cacheOn, jobstatus, sawDir, yielded, built,
                   wrapped, processStatus, cbCalls, collectDir, ranCb, closedLock>>

\* The miss branch with the wait for the exclusive lock left out.
job_upgrade_nowait(p) ==
    /\ UNCHANGED notCache
    /\ pc[p] = "upgrading"
    /\ lock' = [lock EXCEPT ![p] = "exclusive"]
    /\ cacheDir' = "empty"
    /\ wrapped' = [wrapped EXCEPT ![p] = TRUE]
    /\ pc' = [pc EXCEPT ![p] = "build"]
    /\ UNCHANGED <<statusFile, cacheOn, jobstatus, sawDir, yielded, built,
                   processStatus, cbCalls, collectDir, ranCb, closedLock>>

\* lines 555-577: the exclusive lock is granted; the cache directory is removed
\* and recreated, the job's outdir becomes the cache directory and the output
\* callback is wrapped.  The status is not read again.
job_upgrade(p) ==
    /\ UNCHANGED notCache
    /\ pc[p] = "upgrading"
    /\ ExclusiveLockFree(p)
    /\ lock' = [lock EXCEPT ![p] = "exclusive"]
    /\ cacheDir' = "empty"
    /\ wrapped' = [wrapped EXCEPT ![p] = TRUE]
    /\ pc' = [pc EXCEPT ![p] = "build"]
    /\ UNCHANGED <<statusFile, cacheOn, jobstatus, sawDir, yielded, built,
                   processStatus, cbCalls, collectDir, ranCb, closedLock>>

\* Where lines 579-821 can leave the generator: the yield of the backend job, an
\* error from make_job_runner (before the job object exists), or a later error
\* (check_adjust, stdout/stderr, timelimit, networkAccess, an expression).
BuildOutcomes == {"yield", "raise_runner", "raise_later"}

\* lines 579-821: build the backend job and yield it, or raise.
job_build(p, outcome) ==
    /\ UNCHANGED notCache
    /\ pc[p] = "build"
    /\ built' = [built EXCEPT ![p] = (outcome # "raise_runner")]
    /\ IF outcome = "yield"
         THEN /\ yielded' = [yielded EXCEPT ![p] = Append(@, "JobBase")]
              /\ pc' = [pc EXCEPT ![p] = "yielded"]
         ELSE /\ pc' = [pc EXCEPT ![p] = "failed"]
              /\ UNCHANGED yielded
    /\ UNCHANGED <<statusFile, cacheDir, lock, cacheOn, jobstatus, sawDir, wrapped,
                   processStatus, cbCalls, collectDir, ranCb, closedLock>>

\* line 527: jobcachelock is a plain file object, closed by nothing on the error
\* path; the lock goes when the interpreter finalizes the object, if it does.
jobcachelock_finalize(p) ==
    /\ UNCHANGED notCache
    /\ pc[p] = "failed"
    /\ lock[p] # "none"
    /\ lock' = [lock EXCEPT ![p] = "none"]
    /\ UNCHANGED <<statusFile, cacheDir, pc, cacheOn, jobstatus, sawDir, yielded,
                   built, wrapped, processStatus, cbCalls, collectDir, ranCb,
                   closedLock>>

\* The caller runs the yielded backend job; with the cache on its outdir is the
\* cache directory (line 560), which it starts to fill.
backend_run(p) ==
    /\ UNCHANGED notCache
    /\ pc[p] = "yielded"
    /\ pc' = [pc EXCEPT ![p] = "running"]
    /\ cacheDir' = IF cacheOn[p] THEN "partial" ELSE cacheDir
    /\ UNCHANGED <<statusFile, lock, cacheOn, jobstatus, sawDir, yielded, built,
                   wrapped, processStatus, cbCalls, collectDir, ranCb, closedLock>>

\* The backend job finishes with status s and is about to call j.output_callback
\* (line 819); on success every output is in place.
backend_exit(p, s) ==
    /\ UNCHANGED notCache
    /\ pc[p] = "running"
    /\ processStatus' = [processStatus EXCEPT ![p] = s]
    /\ cacheDir' = IF cacheOn[p] /\ s = "success" THEN "full" ELSE cacheDir
    /\ pc' = [pc EXCEPT ![p] = IF wrapped[p] THEN "callback" ELSE "invoke"]
    /\ UNCHANGED <<statusFile, lock, cacheOn, jobstatus, sawDir, yielded, built,
                   wrapped, cbCalls, collectDir, ranCb, closedLock>>

\* The wrapped callback with the close left out.
update_status_output_callback_noclose(p) ==
    /\ UNCHANGED notCache
    /\ pc[p] = "callback"
    /\ statusFile' = processStatus[p]
    /\ pc' = [pc EXCEPT ![p] = "invoke"]
    /\ UNCHANGED <<cacheDir, lock, cacheOn, jobstatus, sawDir, yielded, built, wrapped,
                   processStatus, cbCalls, collectDir, ranCb, closedLock>>

\* lines 569-572: seek, truncate, write the status, close (releasing the lock).
update_status_output_callback(p) ==
    /\ UNCHANGED notCache
    /\ pc[p] = "callback"
    /\ statusFile' = processStatus[p]
    /\ lock' = [lock EXCEPT ![p] = "none"]
    /\ pc' = [pc EXCEPT ![p] = "invoke"]
    /\ UNCHANGED <<cacheDir, cacheOn, jobstatus, sawDir, yielded, built, wrapped,
                   processStatus, cbCalls, collectDir, ranCb, closedLock>>

\* line 573 (or the unwrapped callback of line 819): the caller's output callback.
output_callbacks_call(p) ==
    /\ UNCHANGED notCache
    /\ pc[p] = "invoke"
    /\ cbCalls' = [cbCalls EXCEPT ![p] = Append(@, processStatus[p])]
    /\ pc' = [pc EXCEPT ![p] = "done"]
    /\ UNCHANGED <<statusFile, cacheDir, lock, cacheOn, jobstatus, sawDir, yielded,
                   built, wrapped, processStatus, collectDir, ranCb, closedLock>>

\* lines 266-280: CallbackJob.run collects from the cache directory and reports
\* success; collection of a directory that is not complete may raise instead.
CallbackJob_run(p, raises) ==
    /\ UNCHANGED notCache
    /\ pc[p] = "hit"
    /\ ~ranCb[p]
    /\ (cacheDir = "full") => ~raises
    /\ collectDir' = [collectDir EXCEPT ![p] = cacheDir]
    /\ cbCalls' = [cbCalls EXCEPT ![p] = IF raises THEN @ ELSE Append(@, "success")]
    /\ ranCb' = [ranCb EXCEPT ![p] = TRUE]
    /\ UNCHANGED <<statusFile, cacheDir, lock, pc, cacheOn, jobstatus, sawDir,
                   yielded, built, wrapped, processStatus, closedLock>>

\* lines 545-547: the caller advances the generator past the yield; the status
\* file is closed, which releases the shared lock, and the generator returns.
job_resume(p) ==
    /\ UNCHANGED notCache
    /\ pc[p] = "hit"
    /\ ~closedLock[p]
    /\ lock' = [lock EXCEPT ![p] = "none"]
    /\ closedLock' = [closedLock EXCEPT ![p] = TRUE]
    /\ UNCHANGED <<statusFile, cacheDir, pc, cacheOn, jobstatus, sawDir, yielded,
                   built, wrapped, processStatus, cbCalls, collectDir, ranCb>>

NextCache ==
    \E p \in Procs :
        \/ job_start_nocache(p)
        \/ job_lookup(p)
        \/ job_upgrade_request(p)
        \/ job_upgrade(p)
        \/ \E o \in BuildOutcomes : job_build(p, o)
        \/ jobcachelock_finalize(p)
        \/ backend_run(p)
        \/ \E s \in ProcessStatuses : backend_exit(p, s)
        \/ update_status_output_callback(p)
        \/ output_callbacks_call(p)
        \/ \E r \in BOOLEAN : CallbackJob_run(p, r)
        \/ job_resume(p)

InitCacheSpec == InitCache /\ IdleRunner /\ IdleRevmap /\ IdleMutation /\ IdleCollect /\ IdlePrepare /\ IdleCmdline /\ IdleStage /\ IdleRegister /\ IdleExpression

SpecCache == InitCacheSpec /\ [][NextCache]_vars

(***************************************************************************)
(* Runner selection and the cache key                                      *)
(***************************************************************************)

\* Requirement objects: their class and, for a DockerRequirement, the image
\* (dockerPull; dockerImageId is absent in these tools).
DockerReq(img) == [class |-> "DockerRequirement", img |-> img]

EnvVarReq == [class |-> "EnvVarRequirement", img |-> "-"]

NoReq == [class |-> "None", img |-> "-"]

\* The requirements and hints a tool description can carry here.
RequirementChoices ==
    { <<>>, <<DockerReq("imgD")>>, <<EnvVarReq>>, <<EnvVarReq, DockerReq("imgD")>> }

HintChoices == { <<>>, <<DockerReq("imgH")>> }

HasClass(rs, cls) == \E i \in DOMAIN rs : rs[i].class = cls

\* reversed(rs): the first match from the back.
LastOfClass(rs, cls) ==
    rs[CHOOSE i \in DOMAIN rs :
          /\ rs[i].class = cls
          /\ \A j \in DOMAIN rs : rs[j].class = cls => j <= i]

\* Process.get_requirement: the last match in requirements, else the last match
\* in hints, else None.
get_requirement(reqs, hnts, cls) ==
    IF HasClass(reqs, cls) THEN LastOfClass(reqs, cls)
    ELSE IF HasClass(hnts, cls) THEN LastOfClass(hnts, cls)
    ELSE NoReq

\* lines 352-355: a default container is looked up and found.
InjectsDefault(reqs, hnts, uc, fdc) ==
    /\ get_requirement(reqs, hnts, "DockerRequirement") = NoReq
    /\ uc
    /\ fdc \notin {"absent", "None"}

\* lines 356-360: the synthetic DockerRequirement goes to the front.
WithDefault(reqs, hnts, uc, fdc) ==
    IF InjectsDefault(reqs, hnts, uc, fdc) THEN <<DockerReq(fdc)>> \o reqs ELSE reqs

\* Selection that also refuses a DockerRequirement found under hints.
SelectRunner_HintsFail(reqs, hnts, uc, sing, udocker) ==
    IF get_requirement(reqs, hnts, "DockerRequirement") # NoReq /\ uc
      THEN IF sing THEN "SingularityCommandLineJob"
           ELSE IF udocker THEN "UDockerCommandLineJob"
           ELSE "DockerCommandLineJob"
      ELSE IF get_requirement(reqs, hnts, "DockerRequirement") # NoReq
             THEN "UnsupportedRequirement"
             ELSE "CommandLineJob"

\* lines 372-384: the backend class, or the UnsupportedRequirement error; reqs
\* is self.requirements after the insertion of lines 356-360.
SelectRunner(reqs, hnts, uc, sing, udocker) ==
    IF get_requirement(reqs, hnts, "DockerRequirement") # NoReq /\ uc
      THEN IF sing THEN "SingularityCommandLineJob"
           ELSE IF udocker THEN "UDockerCommandLineJob"
           ELSE "DockerCommandLineJob"
      ELSE IF HasClass(reqs, "DockerRequirement")
             THEN "UnsupportedRequirement"
             ELSE "CommandLineJob"

\* The input files of the job order, by resolved path, with what os.stat and
\* the descriptor give: size, and a trusted checksum or else the mtime in ms.
InputFiles == {"/in/a", "/in/b"}

FileStat(f) == IF f = "/in/a" THEN <<"3", "sha1$aa">> ELSE <<"5", "1000">>

\* The orders in which the path mapper can list the input files.
FileOrders == { <<"/in/a", "/in/b">>, <<"/in/b", "/in/a">> }

\* line 499: the classes that enter the key.
interesting ==
    { "DockerRequirement", "EnvVarRequirement", "InitialWorkDirRequirement",
      "ShellCommandRequirement", "NetworkAccess" }

\* The dictionary keys that occur, in the order sort_keys puts them.
KeyOrder ==
    << "/in/a", "/in/b", "DockerRequirement", "EnvVarRequirement",
       "InitialWorkDirRequirement", "NetworkAccess", "ShellCommandRequirement",
       "cmdline", "stdout" >>

KeyRank(k) == CHOOSE i \in DOMAIN KeyOrder : KeyOrder[i] = k

\* A dict is a sequence of <<key, value>> in insertion order; a value is the
\* sequence of its JSON tokens.
InDict(d, k) == \E i \in DOMAIN d : d[i][1] = k

DictSet(d, k, v) ==
    IF InDict(d, k)
      THEN [i \in DOMAIN d |-> IF d[i][1] = k THEN <<k, v>> ELSE d[i]]
      ELSE Append(d, <<k, v>>)

\* lines 487-497: one entry per input file, in the path mapper's order.
RECURSIVE AddFiles(_, _)
AddFiles(d, order) ==
    IF order = <<>> THEN d
    ELSE AddFiles(DictSet(d, Head(order), FileStat(Head(order))), Tail(order))

ReqTokens(r) == <<"class", r.class, "dockerPull", r.img>>

\* lines 507-510: for r in reversed(rh), the first one seen of a class is kept.
RECURSIVE AddInteresting(_, _, _)
AddInteresting(d, rh, i) ==
    IF i = 0 THEN d
    ELSE AddInteresting(
           IF rh[i].class \in interesting /\ ~InDict(d, rh[i].class)
             THEN DictSet(d, rh[i].class, ReqTokens(rh[i]))
             ELSE d,
           rh, i - 1)

\* lines 451-465: the image that prefixes the command line that is hashed.
dockerimg(reqs, hnts, uc, dc) ==
    IF get_requirement(reqs, hnts, "DockerRequirement") # NoReq /\ uc
      THEN get_requirement(reqs, hnts, "DockerRequirement").img
      ELSE IF dc # "None" /\ uc THEN dc ELSE "None"

\* lines 448-510: the key structure, in insertion order.  The tool has the
\* command line <<"cat", "/stage/a", "/stage/b">> and stdout "out.txt".
keydict(reqs, oreqs, hnts, uc, dc, order) ==
    LET img == dockerimg(reqs, hnts, uc, dc)
        base == <<"cat", "/stage/a", "/stage/b">>
        cmdline == IF img # "None" THEN <<"docker", "run", img>> \o base ELSE base
        d1 == <<<<"cmdline", cmdline>>, <<"stdout", <<"out.txt">>>>>>
        d2 == AddFiles(d1, order)
        d3 == AddInteresting(d2, oreqs, Len(oreqs))
    IN  AddInteresting(d3, hnts, Len(hnts))

\* Serialisation in insertion order.
RECURSIVE Dump_unsorted(_)
Dump_unsorted(d) ==
    IF d = <<>> THEN <<>>
    ELSE <<Head(d)[1]>> \o Head(d)[2] \o Dump_unsorted(Tail(d))

\* The entries of d in the order of their keys.
RECURSIVE SortedEntries(_, _)
SortedEntries(d, r) ==
    IF r > Len(KeyOrder) THEN <<>>
    ELSE (IF InDict(d, KeyOrder[r])
            THEN <<d[CHOOSE i \in DOMAIN d : d[i][1] = KeyOrder[r]]>>
            ELSE <<>>) \o SortedEntries(d, r + 1)

\* line 512: json_dumps(keydict, separators=(",", ":"), sort_keys=True), as the
\* sequence of its tokens.
json_dumps(d) == Dump_unsorted(SortedEntries(d, 1))

\* line 513: the digest.  MD5 is taken as collision free on these inputs: the
\* digest is identified with the text that is hashed.
cachekey(reqs, oreqs, hnts, uc, dc, order) ==
    json_dumps(keydict(reqs, oreqs, hnts, uc, dc, order))

InitRunner ==
    /\ requirements \in RequirementChoices
    /\ original_requirements = requirements
    /\ hints \in HintChoices
    /\ use_container \in BOOLEAN
    /\ singularity \in BOOLEAN
    /\ user_space_docker_cmd \in BOOLEAN
    /\ default_container \in {"None", "imgA"}
    /\ find_default_container \in {"absent", "None", "imgA", "imgB"}
    /\ runner = "none"
    /\ keys = <<>>
    /\ rpc = "key"

\* lines 429-513 of one prepare call: the cache key, with the input files
\* listed in the given order.
job_cachekey(order) ==
    /\ UNCHANGED notRunner
    /\ rpc = "key"
    /\ Len(keys) < MaxPrepares
    /\ keys' = Append(keys, cachekey(requirements, original_requirements, hints,
                                     use_container, default_container, order))
    /\ rpc' = "runner"
    /\ UNCHANGED <<requirements, original_requirements, hints, use_container,
                   singularity, user_space_docker_cmd, default_container,
                   find_default_container, runner>>

\* lines 350-384, called at line 583 of the same prepare call (a cache miss).
make_job_runner ==
    /\ UNCHANGED notRunner
    /\ rpc = "runner"
    /\ requirements' = WithDefault(requirements, hints, use_container,
                                   find_default_container)
    /\ runner' = SelectRunner(requirements', hints, use_container, singularity,
                              user_space_docker_cmd)
    /\ rpc' = "key"
    /\ UNCHANGED <<original_requirements, hints, use_container, singularity,
                   user_space_docker_cmd, default_container,
                   find_default_container, keys>>

NextRunner ==
    \/ \E order \in FileOrders : job_cachekey(order)
    \/ make_job_runner


InitRunnerSpec == InitRunner /\ IdleCache /\ IdleRevmap /\ IdleMutation /\ IdleCollect /\ IdlePrepare /\ IdleCmdline /\ IdleStage /\ IdleRegister /\ IdleExpression

SpecRunner == InitRunnerSpec /\ [][NextRunner]_vars

(***************************************************************************)
(* Reverse mapping                                                         *)
(***************************************************************************)

\* A path is absolute or relative and has segments; a location adds a scheme
\* ("" for a plain host path).  The host output directory is /h, the sandbox
\* output directory (builder.outdir) is /s, inputs are staged under /t.
Seg == {"h", "s", "t", "a", ".."}

SegSeqs == UNION { [1..n -> Seg] : n \in 1..MaxSegs }

Paths == [abs : BOOLEAN, segs : SegSeqs]

PathOf(abs, segs) == [abs |-> abs, segs |-> segs]

LocOf(scheme, abs, segs) == [scheme |-> scheme, abs |-> abs, segs |-> segs]

NoPath == PathOf(FALSE, <<>>)

NoLoc == LocOf("", FALSE, <<>>)

\* The outdir argument of revmap_file, after lines 191-193.
HostOutdir == LocOf("file", TRUE, <<"h">>)

\* builder.outdir
BuilderOutdir == PathOf(TRUE, <<"s">>)

\* schema_salad file_uri(path): the scheme is put in front; nothing is resolved.
file_uri(path) == LocOf("file", path.abs, path.segs)

\* schema_salad uri_file_path(location), of a file:// location.
uri_file_path(loc) == PathOf(loc.abs, loc.segs)

\* x.startswith(y + "/"), x == y excluded: y is a proper prefix by segments.
StartsWithDir(xs, ys) ==
    /\ Len(xs) > Len(ys)
    /\ SubSeq(xs, 1, Len(ys)) = ys

\* x[len(y) + 1:]
Rest(xs, ys) == SubSeq(xs, Len(ys) + 1, Len(xs))

\* fs_access.join(outdir, rel), rel relative.
fs_join(loc, rel) == LocOf(loc.scheme, loc.abs, loc.segs \o rel)

IsWritableType(t) == t \in {"WritableFile", "WritableDirectory"}

\* The input file file:///i/a of the job, as the path mapper holds it.
InputLocation == LocOf("file", TRUE, <<"i", "a">>)

InputResolved == LocOf("", TRUE, <<"i", "a">>)

MapperEnt(target, type) ==
    [location |-> InputLocation, resolved |-> InputResolved,
     target |-> target, type |-> type]

\* The path mappers of a job: none staged; the input staged under the stage
\* directory; the input staged into the output directory by
\* InitialWorkDirRequirement (updatePathmap), writable or not.
PathMappers ==
    { <<>>,
      <<MapperEnt(PathOf(TRUE, <<"t", "a">>), "File")>>,
      <<MapperEnt(PathOf(TRUE, <<"s", "a">>), "File")>>,
      <<MapperEnt(PathOf(TRUE, <<"s", "a">>), "WritableFile")>> }

\* PathMapper.reversemap(target): the entry staged at target, if any.
HasTarget(pm, target) == \E i \in DOMAIN pm : pm[i].target = target

reversemap(pm, target) ==
    pm[CHOOSE i \in DOMAIN pm :
          /\ pm[i].target = target
          /\ \A j \in DOMAIN pm : pm[j].target = target => i <= j]

\* Output descriptors: "path" and "location" may each be missing; basename ""
\* stands for a missing basename.
Descriptor(hasPath, path, hasLoc, loc) ==
    [hasPath |-> hasPath, path |-> path, hasLoc |-> hasLoc, location |-> loc,
     basename |-> ""]

\* What collection hands to revmap_file: descriptors from cwl.output.json or
\* outputEval with only a path, glob hits with the host location next to the
\* path (lines 943-958), descriptors with only a location, and empty ones.
Descriptors ==
    { Descriptor(TRUE, p, FALSE, NoLoc) : p \in Paths }
    \cup { Descriptor(TRUE, p, TRUE, LocOf("file", TRUE, <<"h", "a">>)) : p \in Paths }
    \cup { Descriptor(FALSE, NoPath, TRUE, LocOf("file", TRUE, q)) : q \in SegSeqs }
    \cup { Descriptor(FALSE, NoPath, TRUE, LocOf("http", TRUE, <<"a">>)),
           Descriptor(FALSE, NoPath, FALSE, NoLoc) }

\* lines 205-244: the descriptor has a path.
revmap_path(f, pm) ==
    LET path == f.path
        uripath == file_uri(path)
        g == [f EXCEPT !.hasPath = FALSE, !.path = NoPath,
                       !.basename = IF @ = "" THEN path.segs[Len(path.segs)] ELSE @]
        located(loc) == [status |-> "ok",
                         f |-> [g EXCEPT !.hasLoc = TRUE, !.location = loc]]
    IN  IF HasTarget(pm, path) /\ ~IsWritableType(reversemap(pm, path).type)
          THEN located(reversemap(pm, path).resolved)
        ELSE IF uripath = HostOutdir
                \/ (uripath.scheme = HostOutdir.scheme /\ uripath.abs = HostOutdir.abs
                    /\ StartsWithDir(uripath.segs, HostOutdir.segs))
          THEN located(file_uri(path))
        ELSE IF path = BuilderOutdir
                \/ (path.abs = BuilderOutdir.abs
                    /\ StartsWithDir(path.segs, BuilderOutdir.segs))
          THEN located(fs_join(HostOutdir, Rest(path.segs, BuilderOutdir.segs)))
        ELSE IF ~path.abs
          THEN located(fs_join(HostOutdir, path.segs))
        ELSE [status |-> "escape_error", f |-> g]

\* lines 181-248: revmap_file(builder, outdir, f).
revmap_file(f, pm) ==
    IF f.hasLoc /\ ~f.hasPath
      THEN IF f.location.scheme = "file"
             THEN revmap_path([f EXCEPT !.hasPath = TRUE,
                                        !.path = uri_file_path(f.location)], pm)
             ELSE [status |-> "ok", f |-> f]
    ELSE IF f.hasPath THEN revmap_path(f, pm)
    ELSE [status |-> "missing_error", f |-> f]

InitRevmap ==
    /\ rv_f \in Descriptors
    /\ rv_pm \in PathMappers
    /\ rv_link \in BOOLEAN
    /\ rv_out = [status |-> "none", f |-> rv_f]
    /\ rv_pc = "call"

\* One call of revmap_file, as made by collect_output_ports (line 873) and
\* collect_output (lines 980, 1080, 1095).
revmap ==
    /\ UNCHANGED notRevmap
    /\ rv_pc = "call"
    /\ rv_out' = revmap_file(rv_f, rv_pm)
    /\ rv_pc' = "done"
    /\ UNCHANGED <<rv_f, rv_pm, rv_link>>

NextRevmap == revmap

InitRevmapSpec == InitRevmap /\ IdleCache /\ IdleRunner /\ IdleMutation /\ IdleCollect /\ IdlePrepare /\ IdleCmdline /\ IdleStage /\ IdleRegister /\ IdleExpression

SpecRevmap == InitRevmapSpec /\ [][NextRevmap]_vars

(***************************************************************************)
(* Reader and mutation registration                                        *)
(***************************************************************************)

Jobs == 1..NJobs

\* The file locations the jobs refer to.
Locs == {"l1", "l2"}

\* An entry of the staged listing: a File with its location and writable flag.
ListingEntries == [location : Locs, writable : BOOLEAN]

Listings == UNION { [1..n -> ListingEntries] : n \in 0..MaxListing }

\* builder.files: the input files of the job order; builder.bindings refers to
\* the same descriptors.
FileLists == { <<>>, <<"l1">>, <<"l2">>, <<"l1", "l2">> }

\* The registration state lines 741-768 work on: the manager's sets, the job's
\* readers and muts, and whether a register call has raised.
RegState(rd, mu, jr, jm, ok) ==
    [readers |-> rd, mutator |-> mu, jreaders |-> jr, jmuts |-> jm, ok |-> ok]

\* lines 746-749 with MutationManager.register_mutation: muts gets the
\* location first; the call fails if the file has a reader or a mutator.
register_mut(st, j, loc) ==
    IF ~st.ok THEN st
    ELSE IF st.readers[loc] # {} \/ st.mutator[loc] # 0
      THEN [st EXCEPT !.jmuts = @ \cup {loc}, !.ok = FALSE]
      ELSE [st EXCEPT !.jmuts = @ \cup {loc}, !.mutator[loc] = j]

\* lines 751-755 with MutationManager.register_reader: skipped for a location
\* in muts; the call fails if the file has a mutator.
register_reader(st, j, loc) ==
    IF ~st.ok \/ loc \in st.jmuts THEN st
    ELSE IF st.mutator[loc] # 0
      THEN [st EXCEPT !.ok = FALSE]
      ELSE [st EXCEPT !.readers[loc] = @ \cup {j}, !.jreaders = @ \cup {loc}]

\* The loop over the listing with every entry registered as a reader.
RECURSIVE register_listing_readers(_, _, _, _)
register_listing_readers(st, j, ls, inplace_update) ==
    IF ls = <<>> THEN st
    ELSE register_listing_readers(register_reader(st, j, Head(ls).location),
                                  j, Tail(ls), inplace_update)

\* lines 757-763: the staged listing, entry by entry.
RECURSIVE register_listing(_, _, _, _)
register_listing(st, j, ls, inplace_update) ==
    IF ls = <<>> THEN st
    ELSE register_listing(
           IF Head(ls).writable /\ inplace_update
             THEN register_mut(st, j, Head(ls).location)
             ELSE register_reader(st, j, Head(ls).location),
           j, Tail(ls), inplace_update)

\* One pass of adjustFileObjs(.., register_reader) over a list of descriptors.
RECURSIVE register_files(_, _, _)
register_files(st, j, fs) ==
    IF fs = <<>> THEN st
    ELSE register_files(register_reader(st, j, Head(fs)), j, Tail(fs))

\* lines 741-768: the listing, then builder.files and builder.bindings.
register_all(st, j, ls, fs, inplace_update) ==
    register_files(register_files(register_listing(st, j, ls, inplace_update), j, fs),
                   j, fs)

\* MutationManager.release_reader for each entry of readers.
release_readers(rd, j, locs) ==
    [l \in Locs |-> IF l \in locs THEN rd[l] \ {j} ELSE rd[l]]

InitMutation ==
    /\ mm_readers = [l \in Locs |-> {}]
    /\ mm_mutator = [l \in Locs |-> 0]
    /\ mj_pc = [j \in Jobs |-> "new"]
    /\ mj_readers = [j \in Jobs |-> {}]
    /\ mj_muts = [j \in Jobs |-> {}]
    /\ mj_outcome = [j \in Jobs |-> "none"]

\* lines 736-821 of prepare, for a job with the staged listing ls, the input
\* files fs and InplaceUpdateRequirement inplace_update: the registrations, then
\* the checks of lines 770-790 (later_raise: one of them raises), then the yield.
\* A register call that raises leaves the earlier registrations in place.
job_register(j, ls, fs, inplace_update) ==
    /\ mj_pc[j] = "new"
    /\ LET st == register_all(RegState(mm_readers, mm_mutator, {}, {}, TRUE),
                              j, ls, fs, inplace_update)
       IN  /\ mm_readers' = st.readers
           /\ mm_mutator' = st.mutator
           /\ mj_readers' = [mj_readers EXCEPT ![j] = st.jreaders]
           /\ mj_muts' = [mj_muts EXCEPT ![j] = st.jmuts]
           /\ \E later_raise \in BOOLEAN :
                 mj_pc' = [mj_pc EXCEPT ![j] =
                             IF st.ok /\ ~later_raise THEN "yielded" ELSE "failed"]
    /\ UNCHANGED mj_outcome
    /\ UNCHANGED notMutation

\* Collection that releases the readers only when it returns.
collect_output_ports_nofinally(j, outcome) ==
    /\ mj_pc[j] = "yielded"
    /\ mm_readers' = IF outcome = "return"
                       THEN release_readers(mm_readers, j, mj_readers[j])
                       ELSE mm_readers
    /\ mj_outcome' = [mj_outcome EXCEPT ![j] = outcome]
    /\ mj_pc' = [mj_pc EXCEPT ![j] = "collected"]
    /\ UNCHANGED <<mm_mutator, mj_readers, mj_muts>>
    /\ UNCHANGED notMutation

\* How collect_output_ports can end: it returns, or raises (a validation
\* failure, a missing output, an escape error, a cancellation).
CollectOutcomes == {"return", "raise"}

\* lines 823-904: the job has run and j.collect_outputs (line 811) is called;
\* whatever the outcome, the finally block releases every reader in readers.
collect_output_ports(j, outcome) ==
    /\ mj_pc[j] = "yielded"
    /\ mm_readers' = release_readers(mm_readers, j, mj_readers[j])
    /\ mj_outcome' = [mj_outcome EXCEPT ![j] = outcome]
    /\ mj_pc' = [mj_pc EXCEPT ![j] = "collected"]
    /\ UNCHANGED <<mm_mutator, mj_readers, mj_muts>>
    /\ UNCHANGED notMutation

NextMutation ==
    \E j \in Jobs :
        \/ \E ls \in Listings, fs \in FileLists, iu \in BOOLEAN :
              job_register(j, ls, fs, iu)
        \/ \E o \in CollectOutcomes : collect_output_ports(j, o)

InitMutationSpec == InitMutation /\ IdleCache /\ IdleRunner /\ IdleRevmap /\ IdleCollect /\ IdlePrepare /\ IdleCmdline /\ IdleStage /\ IdleRegister /\ IdleExpression

SpecMutation == InitMutationSpec /\ [][NextMutation]_vars

(***************************************************************************)
(* Output collection                                                       *)
(***************************************************************************)

\* A Python value as collection handles it: None, an int, a str, a list of
\* File objects or one File object.  s is the number or the text (or the name
\* of the file), items the names of the files of a list.
Val(k, s, items) == [k |-> k, s |-> s, items |-> items]

Null == Val("null", "", <<>>)

IntV(s) == Val("int", s, <<>>)

StrV(s) == Val("str", s, <<>>)

ListV(items) == Val("list", "", items)

FileV(name) == Val("file", name, <<>>)

\* The port has no outputEval.
NoEval == Val("absent", "", <<>>)

\* What the glob of a port can match.
GlobHits == { <<>>, <<"f1">>, <<"f1", "f2">> }

\* What outputEval can evaluate to.
EvalResults ==
    { Null, IntV("0"), IntV("5"), StrV(""), StrV("x"), FileV("f1") }
        \cup { ListV(h) : h \in GlobHits }

\* schema["type"]: a list of names (a union), a name, or a mapping (an array
\* schema here, named "array"; record schemas are not among the ports).
PortType(union, names) == [union |-> union, names |-> names]

PortTypes ==
    { PortType(FALSE, {"File"}), PortType(FALSE, {"Directory"}),
      PortType(FALSE, {"string"}), PortType(FALSE, {"array"}),
      PortType(TRUE, {"null", "File"}), PortType(TRUE, {"null", "string"}),
      PortType(TRUE, {"File", "Directory"}) }

\* lines 1005-1013
optional(type) == type.union /\ "null" \in type.names

single(type) == type.names \cap {"File", "Directory"} # {}

\* not result
Falsy(v) ==
    \/ v.k = "null"
    \/ v.k = "int" /\ v.s = "0"
    \/ v.k = "str" /\ v.s = ""
    \/ v.k = "list" /\ v.items = <<>>

\* line 1099: result in [0, ""]
InZeroOrEmptyStr(v) == (v.k = "int" /\ v.s = "0") \/ (v.k = "str" /\ v.s = "")

\* How a call ends: with a value, or with one of the errors.
Ended(status, value) == [status |-> status, value |-> value]

\* lines 1023-1039: the cardinality of a single port.
PortCardinality(type, result) ==
    IF single(type) /\ Falsy(result) /\ ~optional(type)
      THEN Ended("DidNotFind", result)
    ELSE IF single(type) /\ ~Falsy(result) /\ result.k = "list"
      THEN IF Len(result.items) > 1
             THEN Ended("MultipleMatches", result)
             ELSE Ended("ok", FileV(result.items[1]))
    ELSE Ended("ok", result)

\* aslist(result), and which of its elements are mappings.
aslist(v) == IF v.k = "list" THEN [i \in DOMAIN v.items |-> FileV(v.items[i])]
             ELSE <<v>>

HasPrimary(v) == \E i \in DOMAIN aslist(v) : aslist(v)[i].k = "file"

\* The secondaryFiles entry of a port: whether the port has one, what its
\* "required" evaluates to ("absent": no such field), and what the job left in
\* the output directory under the secondary's name.
SecondarySpecs ==
    { [declared |-> FALSE, required |-> "absent", onhost |-> "absent"] }
        \cup [declared : {TRUE}, required : {"absent", "True", "False"},
              onhost : {"file", "dir", "absent"}]

\* line 1072: fs_access.exists(sfitem["path"]), the path being the primary's
\* directory under builder.outdir plus the secondary's name.  Where builder.outdir
\* is not the host output directory the host has nothing at that path.
exists_sfpath(sf, differs) == ~differs /\ sf.onhost # "absent"

\* lines 1041-1086: the secondary files of the primaries; what is appended to
\* each primary's secondaryFiles, or the error.
Secondary(v, sf, differs) ==
    IF ~sf.declared \/ ~HasPrimary(v) THEN Ended("ok", "none")
    ELSE IF ~exists_sfpath(sf, differs) /\ sf.required = "True"
      THEN Ended("MissingSecondary", "none")
    ELSE Ended("ok", CASE sf.onhost = "file" -> "File"
                       [] sf.onhost = "dir" -> "Directory"
                       [] OTHER -> "none")

\* lines 1088-1092: primary["format"] = ... for each element of aslist(result);
\* the assignment raises TypeError on an element that is no mapping.
Format(v, hasFormat) ==
    IF hasFormat /\ \E i \in DOMAIN aslist(v) : aslist(v)[i].k # "file"
      THEN Ended("TypeError", v)
      ELSE Ended("ok", v)

\* lines 1097-1103 and 1116
Returned(type, v) ==
    IF Falsy(v) /\ optional(type)
      THEN IF InZeroOrEmptyStr(v) THEN v ELSE Null
      ELSE v

Collected(status, value, sfAppended, checksum) ==
    [status |-> status, value |-> value, sfAppended |-> sfAppended,
     checksum |-> checksum]

\* lines 906-1116 for a port with an outputBinding: the glob hits r (Files, for
\* which lines 993-1002 compute a checksum if asked), outputEval, cardinality,
\* secondaryFiles, format and the return.  The hits are in the output directory,
\* so revmap_file does not raise on them.
collect_output(port, r, ev, sf, differs, compute_checksum) ==
    LET sum == compute_checksum /\ r # <<>>
        result == IF ev = NoEval THEN ListV(r) ELSE ev
        c == PortCardinality(port.type, result)
        s == Secondary(c.value, sf, differs)
        f == Format(c.value, port.format)
    IN  IF c.status # "ok" THEN Collected(c.status, c.value, "none", sum)
        ELSE IF s.status # "ok" THEN Collected(s.status, c.value, "none", sum)
        ELSE IF f.status # "ok" THEN Collected(f.status, c.value, s.value, sum)
        ELSE Collected("ok", Returned(port.type, c.value), s.value, sum)

\* getdefault(runtimeContext.compute_checksum, True)
getdefault(cc) == IF cc = "None" THEN "True" ELSE cc

\* lines 823-904 for a tool of cwlVersion v1.1 or later with one output port and
\* no cwl.output.json: builder.resources["exitCode"] is the rcode argument, the
\* port is collected with the compute_checksum argument.
collect_port(rcode, compute_checksum) ==
    [exitCode |-> rcode] @@
        collect_output(co_port, co_r, co_eval, co_sf, co_differs, compute_checksum)

InitCollect ==
    /\ co_port \in [type : PortTypes, format : BOOLEAN]
    /\ co_r \in GlobHits
    /\ co_eval \in {NoEval} \cup EvalResults
    /\ co_sf \in SecondarySpecs
    /\ co_differs \in BOOLEAN
    /\ co_cc \in {"None", "True", "False"}
    /\ co_rcode \in {"0", "1"}
    /\ co_caller = "none"
    /\ co_out = <<>>
    /\ co_pc = "start"

\* The backend job has exited with co_rcode and calls j.collect_outputs, the
\* partial of line 811: collect_output_ports(ports, builder, outdir, rcode,
\* compute_checksum=getdefault(runtimeContext.compute_checksum, True), ..).
collect_by_job ==
    /\ co_pc = "start"
    /\ co_caller' = "JobBase"
    /\ co_out' = collect_port(co_rcode, getdefault(co_cc) = "True")
    /\ co_pc' = "done"
    /\ UNCHANGED <<co_port, co_r, co_eval, co_sf, co_differs, co_cc, co_rcode>>
    /\ UNCHANGED notCollect

\* lines 271-278: CallbackJob.run calls collect_output_ports(ports, cachebuilder,
\* outdir, getdefault(runtimeContext.compute_checksum, True)): the fourth
\* positional parameter is rcode; compute_checksum keeps its default True.
collect_by_CallbackJob ==
    /\ co_pc = "start"
    /\ co_caller' = "CallbackJob"
    /\ co_out' = collect_port(getdefault(co_cc), TRUE)
    /\ co_pc' = "done"
    /\ UNCHANGED <<co_port, co_r, co_eval, co_sf, co_differs, co_cc, co_rcode>>
    /\ UNCHANGED notCollect

NextCollect == collect_by_job \/ collect_by_CallbackJob

InitCollectSpec ==
    InitCollect /\ IdleCache /\ IdleRunner /\ IdleRevmap /\ IdleMutation /\ IdlePrepare /\ IdleCmdline /\ IdleStage /\ IdleRegister /\ IdleExpression

SpecCollect == InitCollectSpec /\ [][NextCollect]_vars

(***************************************************************************)
(* Validation in prepare                                                   *)
(***************************************************************************)

\* What stdout or stderr evaluates to: a path of one or two names, absolute or
\* not, or the empty string; NoField when the tool has no such field.
StdNames == {"o", "..", "a..b"}

StdPaths ==
    [abs : BOOLEAN, segs : { <<n>> : n \in StdNames } \cup { <<"o", n>> : n \in StdNames }]

NoField == [abs |-> FALSE, segs |-> <<"-">>]

EmptyStr == [abs |-> FALSE, segs |-> <<>>]

StdValues == {NoField, EmptyStr} \cup StdPaths

\* os.path.isabs(s)
isabs(s) == s.abs

\* ".." in s: the text has two dots in a row.
HasDotDot(s) == \E i \in DOMAIN s.segs : s.segs[i] \in {"..", "a..b"}

\* lines 696-712: the test on j.stderr and on j.stdout; an empty value is not
\* tested.
StdRejected(s) == s \notin {NoField, EmptyStr} /\ (isabs(s) \/ HasDotDot(s))

\* What ToolTimeLimit.timelimit and NetworkAccess.networkAccess evaluate to: a
\* value with its Python type; "absent" when the requirement is missing.
PyVal(k, n) == [k |-> k, n |-> n]

NoRequirement == PyVal("absent", 0)

TimelimitValues ==
    { NoRequirement, PyVal("int", -1), PyVal("int", 0), PyVal("int", 5),
      PyVal("float", 5), PyVal("str", 5), PyVal("NoneType", 0) }

NetworkAccessValues ==
    { NoRequirement, PyVal("bool", 0), PyVal("bool", 1), PyVal("str", 1),
      PyVal("NoneType", 0) }

\* A test that accepts every integer.
TimelimitRejected_AnyInt(t) == t # NoRequirement /\ t.k # "int"

\* line 776: not isinstance(j.timelimit, int) or j.timelimit < 0
TimelimitRejected(t) == t # NoRequirement /\ (t.k # "int" \/ t.n < 0)

\* line 787: not isinstance(j.networkaccess, bool)
NetworkAccessRejected(v) == v # NoRequirement /\ v.k # "bool"

\* The fields in the order prepare evaluates them: lines 696, 705, 770, 781.
FieldOrder == <<"stderr", "stdout", "timelimit", "networkAccess">>

Rejected(tool, field) ==
    CASE field = "stderr" -> StdRejected(tool.stderr)
      [] field = "stdout" -> StdRejected(tool.stdout)
      [] field = "timelimit" -> TimelimitRejected(tool.timelimit)
      [] field = "networkAccess" -> NetworkAccessRejected(tool.networkAccess)

Declared(tool, field) ==
    CASE field = "stderr" -> tool.stderr # NoField
      [] field = "stdout" -> tool.stdout # NoField
      [] field = "timelimit" -> tool.timelimit # NoRequirement
      [] field = "networkAccess" -> tool.networkAccess # NoRequirement

\* The position in FieldOrder of the first field that is rejected, or 0.
FirstRejected(tool) ==
    IF \E i \in DOMAIN FieldOrder : Rejected(tool, FieldOrder[i])
      THEN CHOOSE i \in DOMAIN FieldOrder :
             /\ Rejected(tool, FieldOrder[i])
             /\ \A k \in 1..(i - 1) : ~Rejected(tool, FieldOrder[k])
      ELSE 0

InitPrepare ==
    /\ pr_tool \in [stderr : StdValues, stdout : StdValues,
                    timelimit : TimelimitValues,
                    networkAccess : NetworkAccessValues]
    /\ pr_cache \in {"off", "miss", "hit"}
    /\ pr_pc = "start"
    /\ pr_evaluated = {}
    /\ pr_yielded = <<>>
    /\ pr_error = "none"
    /\ pr_cbCalls = <<>>

\* lines 535-547: the cache lookup finds the directory and the status success;
\* the CallbackJob is yielded and nothing of lines 579-821 runs.
job_hit ==
    /\ pr_pc = "start" /\ pr_cache = "hit"
    /\ pr_yielded' = Append(pr_yielded, "CallbackJob")
    /\ pr_pc' = "yielded"
    /\ UNCHANGED <<pr_tool, pr_cache, pr_evaluated, pr_error, pr_cbCalls>>
    /\ UNCHANGED notPrepare

\* lines 579-821 without a cache hit: the fields are evaluated in order; the
\* first rejected one raises, and the fields after it are not evaluated; with
\* none rejected the job is yielded at line 821.
job_prepare ==
    /\ pr_pc = "start" /\ pr_cache # "hit"
    /\ LET k == FirstRejected(pr_tool)
           upto == IF k = 0 THEN Len(FieldOrder) ELSE k
       IN  /\ pr_evaluated' = { FieldOrder[i] : i \in
                                  { n \in 1..upto : Declared(pr_tool, FieldOrder[n]) } }
           /\ pr_error' = IF k = 0 THEN "none" ELSE FieldOrder[k]
           /\ pr_yielded' = IF k = 0 THEN Append(pr_yielded, "JobBase")
                            ELSE pr_yielded
           /\ pr_pc' = IF k = 0 THEN "yielded" ELSE "raised"
    /\ UNCHANGED <<pr_tool, pr_cache, pr_cbCalls>>
    /\ UNCHANGED notPrepare

\* The caller runs the yielded job, which ends by invoking the output callback
\* (line 819, or line 271 for a CallbackJob).
job_run(s) ==
    /\ pr_pc = "yielded"
    /\ pr_yielded[1] = "CallbackJob" => s = "success"
    /\ pr_cbCalls' = Append(pr_cbCalls, s)
    /\ pr_pc' = "ran"
    /\ UNCHANGED <<pr_tool, pr_cache, pr_evaluated, pr_yielded, pr_error>>
    /\ UNCHANGED notPrepare

\* The caller advances the generator after the job has run: it returns.
job_exhaust ==
    /\ pr_pc = "ran"
    /\ pr_pc' = "done"
    /\ UNCHANGED <<pr_tool, pr_cache, pr_evaluated, pr_yielded, pr_error, pr_cbCalls>>
    /\ UNCHANGED notPrepare

NextPrepare ==
    \/ job_hit
    \/ job_prepare
    \/ \E s \in ProcessStatuses : job_run(s)
    \/ job_exhaust

InitPrepareSpec ==
    InitPrepare /\ IdleCache /\ IdleRunner /\ IdleRevmap /\ IdleMutation /\ IdleCollect /\ IdleCmdline /\ IdleStage /\ IdleRegister /\ IdleExpression

SpecPrepare == InitPrepareSpec /\ [][NextPrepare]_vars

(***************************************************************************)
(* Command line assembly                                                   *)
(***************************************************************************)

\* A string is the sequence of its characters.
BinSh == <<"/", "b", "i", "n", "/", "s", "h">>

DashC == <<"-", "c">>

\* The tokens generate_arg can give: a plain word, a word with a blank and a
\* semicolon, a word with a single quote, the empty string.
Tokens ==
    { <<"a">>, <<"a", " ", "b", ";">>, <<"a", "'", "b">>, <<>> }

\* The token lists generate_arg can give for a binding: the value, or a prefix
\* and the value.
ArgLists == { <<t>> : t \in Tokens } \cup { <<<<"-", "p">>, t>> : t \in Tokens }

\* A binding: what generate_arg gives for it, and its shellQuote field.
Bindings == [arg : ArgLists, shellQuote : {"absent", "True", "False"}]

BindingLists == UNION { [1..n -> Bindings] : n \in 0..MaxBindings }

\* shellescape: the characters that need no quoting ([a-zA-Z0-9_@%+=:,./-]).
SafeChars == {"a", "b", "p", "-", "/"}

RECURSIVE EscapeQuotes(_)
\* s.replace("'", "'\"'\"'")
EscapeQuotes(s) ==
    IF s = <<>> THEN <<>>
    ELSE (IF Head(s) = "'" THEN <<"'", "\"", "'", "\"", "'">> ELSE <<Head(s)>>)
             \o EscapeQuotes(Tail(s))

\* shellescape.quote(s)
quote(s) ==
    IF s = <<>> THEN <<"'", "'">>
    ELSE IF \A i \in DOMAIN s : s[i] \in SafeChars THEN s
    ELSE <<"'">> \o EscapeQuotes(s) \o <<"'">>

\* b.get("shellQuote", True)
shellQuote(b) == b.shellQuote # "False"

RECURSIVE cmd_extend(_, _)
\* lines 800-805: cmd, extended binding by binding; quoted says whether the
\* shellQuote field is looked at.
cmd_extend(bs, quoted) ==
    IF bs = <<>> THEN <<>>
    ELSE (IF quoted /\ shellQuote(Head(bs))
            THEN [i \in DOMAIN Head(bs).arg |-> quote(Head(bs).arg[i])]
            ELSE Head(bs).arg)
         \o cmd_extend(Tail(bs), quoted)

RECURSIVE join(_)
\* " ".join(cmd)
join(cmd) ==
    IF cmd = <<>> THEN <<>>
    ELSE IF Len(cmd) = 1 THEN Head(cmd)
    ELSE Head(cmd) \o <<" ">> \o join(Tail(cmd))

\* Assembly that quotes nothing.
command_line_unquoted(bs, shell) ==
    IF shell THEN <<BinSh, DashC, join(cmd_extend(bs, FALSE))>>
    ELSE cmd_extend(bs, FALSE)

\* lines 798-808: j.command_line
command_line(bs, shell) ==
    IF shell THEN <<BinSh, DashC, join(cmd_extend(bs, TRUE))>>
    ELSE cmd_extend(bs, FALSE)

InitCmdline ==
    /\ cl_bindings \in BindingLists
    /\ cl_shell \in BOOLEAN
    /\ cl_out = <<>>
    /\ cl_pc = "start"

\* lines 798-808 of prepare
job_command_line ==
    /\ cl_pc = "start"
    /\ cl_out' = command_line(cl_bindings, cl_shell)
    /\ cl_pc' = "done"
    /\ UNCHANGED <<cl_bindings, cl_shell>>
    /\ UNCHANGED notCmdline

NextCmdline == job_command_line

InitCmdlineSpec ==
    InitCmdline /\ IdleCache /\ IdleRunner /\ IdleRevmap /\ IdleMutation /\ IdleCollect /\ IdlePrepare /\ IdleStage /\ IdleRegister /\ IdleExpression

SpecCmdline == InitCmdlineSpec /\ [][NextCmdline]_vars

(***************************************************************************)
(* Staging: the path mapper, check_adjust and the initial work directory   *)
(***************************************************************************)

\* The locations of the job's input files.
StageLocs == {"l1", "l2"}

\* Basenames, as sequences of characters.
Names == { <<"a">>, <<"a", ".", "b">>, <<".", "a">>, <<"a", " ">> }

\* builder.stagedir and builder.outdir, with the separator at their end.
StageDir == <<"/", "t", "/">>

OutDir == <<"/", "s", "/">>

\* PathMapper with separateDirs: each file gets {stagedir}/{segment}/{basename},
\* the segment unique to the file.
Segment(l) == IF l = "l1" THEN <<"1", "/">> ELSE <<"2", "/">>

MapperEntry(target, type) == [target |-> target, type |-> type]

make_path_mapper(files) ==
    [l \in StageLocs |-> MapperEntry(StageDir \o Segment(l) \o files[l].basename,
                                     files[l].class)]

\* The position of the last ch in s, 0 if there is none.
LastIndex(s, ch) ==
    IF \E i \in DOMAIN s : s[i] = ch
      THEN CHOOSE i \in DOMAIN s : s[i] = ch /\ \A k \in (i + 1)..Len(s) : s[k] # ch
      ELSE 0

\* os.path.split(path), of a path without doubled separators.
path_split(path) ==
    LET i == LastIndex(path, "/")
    IN  <<IF i <= 1 THEN SubSeq(path, 1, i) ELSE SubSeq(path, 1, i - 1),
          SubSeq(path, i + 1, Len(path))>>

\* os.path.splitext(basename): the extension starts at the last dot, unless only
\* dots come before it.
splitext(bn) ==
    LET d == LastIndex(bn, ".")
    IN  IF d > 0 /\ \E k \in 1..(d - 1) : bn[k] # "."
          THEN <<SubSeq(bn, 1, d - 1), SubSeq(bn, d, Len(bn))>>
          ELSE <<bn, <<>>>>

\* The characters of [a-zA-Z0-9._+-] that occur.
AcceptedChars == {"a", "b", ".", "_", "+", "-"}

\* ACCEPTLIST_EN_RELAXED_RE
ACCEPTLIST_RELAXED(bn) == TRUE

\* line 84 and 86: ACCEPTLIST_RE = ACCEPTLIST_EN_STRICT_RE, ^[a-zA-Z0-9._+-]+$
ACCEPTLIST_RE(bn) == bn # <<>> /\ \A i \in DOMAIN bn : bn[i] \in AcceptedChars

\* lines 283-315 on a POSIX host (docker_windows_path_adjust changes nothing):
\* the descriptor of location l after check_adjust, and whether it was refused.
check_adjust(pm, files, l) ==
    LET path == pm[l].target
        sp == path_split(path)
        ext == splitext(sp[2])
    IN  [path |-> path, dirname |-> sp[1], basename |-> sp[2],
         class |-> files[l].class,
         nameroot |-> IF files[l].class = "File" THEN ext[1] ELSE <<>>,
         nameext |-> IF files[l].class = "File" THEN ext[2] ELSE <<>>,
         refused |-> ~ACCEPTLIST_RE(sp[2])]

\* An entry of the evaluated listing: an input File or Directory (by location),
\* its entryname if the entry has one, and its writable flag.
NoName == <<"-">>

ListingItems ==
    [location : StageLocs, entryname : {NoName, <<"a">>, <<"a", " ">>}, writable : BOOLEAN]

\* The tool without InitialWorkDirRequirement.
NoListing == [required |-> FALSE, listing |-> <<>>]

\* initialWorkdir and the listing it evaluates to.
StageListings ==
    {NoListing} \cup
    [required : {TRUE}, listing : UNION { [1..n -> ListingItems] : n \in 0..MaxListing }]

\* lines 395-414 for an entry without secondaryFiles or listing: its location is
\* in the path mapper, and is retargeted to outdir/basename; the basename is the
\* entryname if the entry has one (lines 662-665).
updatePathmap(pm, files, e) ==
    LET basename == IF e.entryname # NoName THEN e.entryname
                    ELSE files[e.location].basename
    IN  [pm EXCEPT ![e.location] =
            MapperEntry(OutDir \o basename,
                        (IF e.writable THEN "Writable" ELSE "") \o files[e.location].class)]

RECURSIVE updatePathmaps(_, _, _)
\* lines 670-671: for entry in ls
updatePathmaps(pm, files, ls) ==
    IF ls = <<>> THEN pm
    ELSE updatePathmaps(updatePathmap(pm, files, Head(ls)), files, Tail(ls))

InitStage ==
    /\ st_files \in [StageLocs -> [basename : Names, class : {"File", "Directory"}]]
    /\ st_listing \in StageListings
    /\ st_pm = <<>>
    /\ st_out = <<>>
    /\ st_err = "none"
    /\ st_pc = "start"

\* lines 611-675 of prepare: the path mapper is made, check_adjust visits the
\* descriptors of builder.files (builder.bindings refers to the same
\* descriptors); with an InitialWorkDirRequirement the entries of the listing
\* are retargeted and check_adjust visits the descriptors again.  A refusal
\* raises before anything after it runs.
job_stage ==
    /\ st_pc = "start"
    /\ LET pm1 == make_path_mapper(st_files)
           out1 == [l \in StageLocs |-> check_adjust(pm1, st_files, l)]
           pm2 == updatePathmaps(pm1, st_files, st_listing.listing)
           out2 == [l \in StageLocs |-> check_adjust(pm2, st_files, l)]
       IN  IF \E l \in StageLocs : out1[l].refused
             THEN st_pm' = pm1 /\ st_out' = out1
                  /\ st_err' = "Invalid filename" /\ st_pc' = "raised"
           ELSE IF ~st_listing.required
             THEN st_pm' = pm1 /\ st_out' = out1
                  /\ st_err' = "none" /\ st_pc' = "done"
           ELSE IF \E l \in StageLocs : out2[l].refused
             THEN st_pm' = pm2 /\ st_out' = out2
                  /\ st_err' = "Invalid filename" /\ st_pc' = "raised"
           ELSE st_pm' = pm2 /\ st_out' = out2
                /\ st_err' = "none" /\ st_pc' = "done"
    /\ UNCHANGED <<st_files, st_listing>>
    /\ UNCHANGED notStage

NextStage == job_stage

InitStageSpec ==
    InitStage /\ IdleCache /\ IdleRunner /\ IdleRevmap /\ IdleMutation /\ IdleCollect /\ IdlePrepare /\ IdleCmdline /\ IdleRegister /\ IdleExpression

SpecStage == InitStageSpec /\ [][NextStage]_vars

(***************************************************************************)
(* The registrations of one prepare                                        *)
(***************************************************************************)

\* The job whose prepare is followed, and a job prepared before it.
ThisJob == 1

OtherJob == 2

\* What the earlier job holds on a location when this job is prepared.
Holds == {"nothing", "reader", "mutator"}

InitRegister ==
    /\ \E h \in [Locs -> Holds] :
          /\ mm_readers = [l \in Locs |-> IF h[l] = "reader" THEN {OtherJob} ELSE {}]
          /\ mm_mutator = [l \in Locs |-> IF h[l] = "mutator" THEN OtherJob ELSE 0]
          /\ mj_readers = [j \in Jobs |-> IF j = OtherJob
                                            THEN {l \in Locs : h[l] = "reader"} ELSE {}]
          /\ mj_muts = [j \in Jobs |-> IF j = OtherJob
                                         THEN {l \in Locs : h[l] = "mutator"} ELSE {}]
    /\ mj_pc = [j \in Jobs |-> IF j = OtherJob THEN "yielded" ELSE "new"]
    /\ mj_outcome = [j \in Jobs |-> "none"]
    /\ rg_listing \in Listings
    /\ rg_files \in FileLists
    /\ rg_inplace \in BOOLEAN

\* lines 736-821 of the prepare of this job, on its listing and input files.
prepare_register == job_register(ThisJob, rg_listing, rg_files, rg_inplace)

NextRegister == prepare_register

InitRegisterSpec ==
    InitRegister /\ IdleCache /\ IdleRunner /\ IdleRevmap /\ IdleCollect /\ IdlePrepare /\ IdleCmdline /\ IdleStage /\ IdleExpression

SpecRegister == InitRegisterSpec /\ [][NextRegister]_vars

(***************************************************************************)
(* ExpressionJob.run                                                       *)
(***************************************************************************)

\* What an expression evaluates to.
ExprValues == {"v1", "v2", "v3"}

\* What a call can do instead of returning: raise a WorkflowException, or
\* another exception.
Raises == {"WorkflowException", "Exception"}

\* The empty outputs object {} of line 143.
EmptyOutputs == "{}"

CallbackStatuses == {"success", "permanentFail"}

Call(outputs, status) == <<outputs, status>>

InitExpression ==
    /\ ex_callback \in BOOLEAN
    /\ ex_eval \in ExprValues \cup Raises
    /\ ex_behaviour \in [CallbackStatuses -> {"returns"} \cup Raises]
    /\ ex_calls = <<>>
    /\ ex_end = "none"
    /\ ex_pc = "start"

\* lines 137-143: the except clause, entered with a WorkflowException raised
\* inside the try block after the invocations calls.
except_WorkflowException(calls) ==
    IF ex_callback
      THEN /\ ex_calls' = Append(calls, Call(EmptyOutputs, "permanentFail"))
           /\ ex_end' = IF ex_behaviour["permanentFail"] = "returns" THEN "returned"
                        ELSE ex_behaviour["permanentFail"]
      ELSE /\ ex_calls' = calls
           /\ ex_end' = "returned"

\* lines 125-143: ExpressionJob.run.  The invocation with success is inside the
\* try block.
ExpressionJob_run ==
    /\ ex_pc = "start"
    /\ IF ex_eval = "WorkflowException"
         THEN except_WorkflowException(<<>>)
       ELSE IF ex_eval = "Exception"
         THEN ex_calls' = <<>> /\ ex_end' = "Exception"
       ELSE IF ~ex_callback
         THEN ex_calls' = <<>> /\ ex_end' = "returned"
       ELSE IF ex_behaviour["success"] = "WorkflowException"
         THEN except_WorkflowException(<<Call(ex_eval, "success")>>)
       ELSE /\ ex_calls' = <<Call(ex_eval, "success")>>
            /\ ex_end' = IF ex_behaviour["success"] = "returns" THEN "returned"
                         ELSE "Exception"
    /\ ex_pc' = "done"
    /\ UNCHANGED <<ex_callback, ex_eval, ex_behaviour>>
    /\ UNCHANGED notExpression

NextExpression == ExpressionJob_run

InitExpressionSpec ==
    InitExpression /\ IdleCache /\ IdleRunner /\ IdleRevmap /\ IdleMutation /\ IdleCollect /\ IdlePrepare /\ IdleCmdline /\ IdleStage /\ IdleRegister

SpecExpression == InitExpressionSpec /\ [][NextExpression]_vars

(***************************************************************************)
(* Properties of the job cache (SpecCache)                                 *)
(***************************************************************************)

\* A preparation is in its writer phase from the grant of the exclusive lock
\* (job_upgrade) until update_status_output_callback has written the status.
InWriterPhase(p) ==
    cacheOn[p] /\ pc[p] \in {"build", "yielded", "running", "callback"}

\* A preparation is on the hit branch and its CallbackJob has not collected yet.
HitNotCollected(p) == pc[p] = "hit" /\ ~ranCb[p]

\* C1: from the hit decision until its CallbackJob has collected, a preparation
\* on the cache-hit branch finds the cache directory holding the complete
\* outputs of a successful job; no other preparation empties or refills it.
C1_HitSeesCompleteCache ==
    \A p \in Procs : HitNotCollected(p) => cacheDir = "full"

\* C2: at any time at most one preparation for the cache key is in its writer
\* phase.
C2_AtMostOneWriter ==
    \A p, q \in Procs : (InWriterPhase(p) /\ InWriterPhase(q)) => p = q

\* C2, the case: one preparation is writing while another, which also read a
\* status other than success, waits for the exclusive lock.
C2_Witness ==
    \E p, q \in Procs :
        /\ p # q
        /\ InWriterPhase(p) /\ pc[p] = "running"
        /\ pc[q] = "upgrading"

\* C3: once the status file reads success next to the complete cache
\* directory, no preparation destroys the directory again.
C3_NoRebuildAfterSuccess ==
    [][(statusFile = "success" /\ cacheDir = "full") => cacheDir' = "full"]_vars

\* C4: with the cache on, prepare yields at most one job, and exactly one unless
\* it raises; the job is a CallbackJob exactly if the directory existed and the
\* status read was success; on a hit no backend job is built or run and the
\* CallbackJob collects from the cache directory and reports only success; with
\* the cache off no status file is opened and the job is a backend job.
C4_CallbackJobIffHit ==
    \A p \in Procs :
        /\ Len(yielded[p]) <= 1
        /\ pc[p] \in {"hit", "yielded", "running", "callback", "invoke", "done"}
              => Len(yielded[p]) = 1
        /\ yielded[p] # <<>> =>
              /\ yielded[p][1] = "CallbackJob"
                    <=> (cacheOn[p] /\ sawDir[p] /\ jobstatus[p] = "success")
              /\ yielded[p][1] = "CallbackJob" =>
                    /\ ~built[p] /\ processStatus[p] = "none"
                    /\ \A i \in DOMAIN cbCalls[p] : cbCalls[p][i] = "success"
                    /\ ranCb[p] => collectDir[p] \in DirStates \ {"absent"}
              /\ yielded[p][1] = "JobBase" => built[p]
        /\ ~cacheOn[p] => lock[p] = "none" /\ jobstatus[p] = "unread"

\* C4, the case: a preparation hit the cache, its CallbackJob ran and reported
\* success, while another preparation missed and got a backend job.
C4_Witness ==
    \E p, q \in Procs :
        /\ yielded[p] = <<"CallbackJob">> /\ ranCb[p] /\ cbCalls[p] = <<"success">>
        /\ yielded[q] = <<"JobBase">> /\ cacheOn[q] /\ jobstatus[q] # "success"

(***************************************************************************)
(* Properties of the cache key and of runner selection (SpecRunner)        *)
(***************************************************************************)

\* C5: every computation of the cache key for the tool and job order, in every
\* order of the input files and in each successive prepare call, gives the
\* same digest.
C5_KeyDeterministic ==
    \A i, j \in DOMAIN keys : keys[i] = keys[j]

\* A DockerRequirement is present: declared under requirements or hints, or
\* injected at the front of requirements.
DockerPresent ==
    HasClass(requirements, "DockerRequirement") \/ HasClass(hints, "DockerRequirement")

DockerDeclared ==
    HasClass(original_requirements, "DockerRequirement")
        \/ HasClass(hints, "DockerRequirement")

\* C10 as stated: Singularity if requested, else user-space Docker if
\* requested, else Docker if containers are enabled and a DockerRequirement is
\* present, else the local runner; UnsupportedRequirement when containers are
\* disabled and a DockerRequirement is under requirements.
C10_RunnerAsStated ==
    runner # "none" =>
        runner = IF ~use_container /\ HasClass(requirements, "DockerRequirement")
                   THEN "UnsupportedRequirement"
                 ELSE IF singularity THEN "SingularityCommandLineJob"
                 ELSE IF user_space_docker_cmd THEN "UDockerCommandLineJob"
                 ELSE IF use_container /\ DockerPresent THEN "DockerCommandLineJob"
                 ELSE "CommandLineJob"

\* C10 amended: a container backend is chosen only when containers are enabled
\* and a DockerRequirement is present (declared, or injected at the front of
\* requirements when find_default_container gives an image): then Singularity
\* if requested, else user-space Docker if requested, else Docker.  Otherwise
\* the local runner, except for UnsupportedRequirement when containers are
\* disabled and a DockerRequirement is under requirements.
C10_RunnerSelection ==
    runner # "none" =>
        /\ runner = IF use_container /\ DockerPresent
                      THEN IF singularity THEN "SingularityCommandLineJob"
                           ELSE IF user_space_docker_cmd THEN "UDockerCommandLineJob"
                           ELSE "DockerCommandLineJob"
                    ELSE IF ~use_container
                            /\ HasClass(requirements, "DockerRequirement")
                      THEN "UnsupportedRequirement"
                    ELSE "CommandLineJob"
        /\ (use_container /\ ~DockerDeclared
              /\ find_default_container \notin {"absent", "None"})
              => /\ requirements # <<>>
                 /\ Head(requirements) = DockerReq(find_default_container)
        /\ ~(use_container /\ ~DockerDeclared
              /\ find_default_container \notin {"absent", "None"})
              => requirements = original_requirements

\* C10, the case: Singularity is requested, containers are enabled, no
\* DockerRequirement is declared and no default container is found, and the
\* local runner is selected.
C10_Witness ==
    /\ runner = "CommandLineJob"
    /\ singularity /\ use_container /\ ~DockerPresent

(***************************************************************************)
(* Properties of reverse mapping (SpecRevmap)                              *)
(***************************************************************************)

\* A path with its ".." segments resolved; ".." at the root stays at the root.
RECURSIVE Normalize(_, _)
Normalize(done, todo) ==
    IF todo = <<>> THEN done
    ELSE IF Head(todo) = ".."
      THEN Normalize(IF done = <<>> THEN <<>> ELSE SubSeq(done, 1, Len(done) - 1),
                     Tail(todo))
      ELSE Normalize(Append(done, Head(todo)), Tail(todo))

IsPrefix(ys, xs) == Len(ys) <= Len(xs) /\ SubSeq(xs, 1, Len(ys)) = ys

\* The location resolves to the host output directory or to something in it.
UnderHostOutdir(loc) ==
    /\ loc.scheme = "file" /\ loc.abs
    /\ IsPrefix(HostOutdir.segs, Normalize(<<>>, loc.segs))

\* The location is that of an input the path mapper holds.
IsInputLocation(loc, pm) ==
    \E i \in DOMAIN pm : loc = pm[i].location \/ loc = pm[i].resolved

\* The path is the staged target of an entry that is not Writable*.
IsPassThrough(path, pm) ==
    \E i \in DOMAIN pm : pm[i].target = path /\ ~IsWritableType(pm[i].type)

\* Where on the host the file named by an output path is: the sandbox output
\* directory is the host output directory, a relative path is relative to it.
HostSegs(path) ==
    IF ~path.abs THEN HostOutdir.segs \o path.segs
    ELSE IF IsPrefix(BuilderOutdir.segs, path.segs)
      THEN HostOutdir.segs \o Rest(path.segs, BuilderOutdir.segs)
    ELSE path.segs

\* The real path of the file: ".." resolved, and the symlink outdir/a (when the
\* tool made one) followed out of the output directory.
RealSegs(path) ==
    LET n == Normalize(<<>>, HostSegs(path))
    IN  IF rv_link /\ n = HostOutdir.segs \o <<"a">> THEN <<"etc", "a">> ELSE n

RealOutside(path) == ~IsPrefix(HostOutdir.segs, RealSegs(path))

\* C6: a descriptor on which revmap_file returns without error has a location
\* under the host output directory, or that of an input of the path mapper.
C6_RevmapSound ==
    (rv_pc = "done" /\ rv_out.status = "ok") =>
        \/ UnderHostOutdir(rv_out.f.location)
        \/ IsInputLocation(rv_out.f.location, rv_pm)

\* C7: a descriptor whose path is the staged target of an entry that is not
\* Writable* gets the location under which the entry is stored in the path
\* mapper.
C7_PassThroughLocation ==
    (rv_pc = "done" /\ rv_f.hasPath /\ IsPassThrough(rv_f.path, rv_pm)) =>
        /\ rv_out.status = "ok"
        /\ rv_out.f.location = reversemap(rv_pm, rv_f.path).location

\* C8: an output whose real path is outside the output directory and that is
\* no input pass-through makes revmap_file fail with the escape error, and no
\* location is assigned.
C8_EscapeIsError ==
    (rv_pc = "done" /\ rv_f.hasPath /\ RealOutside(rv_f.path)
        /\ ~IsPassThrough(rv_f.path, rv_pm)) =>
        /\ rv_out.status = "escape_error"
        /\ rv_out.f.hasLoc = rv_f.hasLoc /\ rv_out.f.location = rv_f.location

(***************************************************************************)
(* Properties of reader registration (SpecMutation)                        *)
(***************************************************************************)

\* C9: once collect_output_ports has returned or raised, the job is registered
\* as a reader of no location.
C9_ReadersReleased ==
    \A j \in Jobs :
        mj_pc[j] = "collected" => \A l \in Locs : j \notin mm_readers[l]

\* C9, the case: a job registered readers in prepare, its collection raised,
\* and the registrations are gone.
C9_Witness ==
    \E j \in Jobs :
        /\ mj_pc[j] = "collected" /\ mj_outcome[j] = "raise"
        /\ mj_readers[j] = Locs
        /\ \A l \in Locs : j \notin mm_readers[l]

(***************************************************************************)
(* Properties of output collection (SpecCollect)                           *)
(***************************************************************************)

\* The value collect_output starts the cardinality rules from.
Result0 == IF co_eval = NoEval THEN ListV(co_r) ELSE co_eval

\* C11: a single port fails with the glob error on an empty result unless it is
\* optional and with the multiple-matches error on a longer list, and unwraps a
\* list of one; an optional port gives null for an empty list or null and
\* returns a literal 0 or empty string unchanged.  Secondary files aside.
C11_PortCardinality ==
    (co_pc = "done" /\ co_out.status # "MissingSecondary") =>
        LET t == co_port.type
            isSingle == t.names \cap {"File", "Directory"} # {}
            isOptional == "null" \in t.names
            empty == Result0 \in {Null, ListV(<<>>)}
        IN  /\ (isSingle /\ empty /\ ~isOptional) => co_out.status = "DidNotFind"
            /\ (isSingle /\ Result0.k = "list" /\ Len(Result0.items) > 1)
                  => co_out.status = "MultipleMatches"
            /\ (isSingle /\ Result0.k = "list" /\ Len(Result0.items) = 1)
                  => co_out.status = "ok" /\ co_out.value = FileV(Result0.items[1])
            /\ (isOptional /\ empty)
                  => co_out.status = "ok" /\ co_out.value = Null
            /\ (isOptional /\ Result0 \in {IntV("0"), StrV("")})
                  => co_out.status = "ok" /\ co_out.value = Result0

\* The port has a secondaryFiles entry and collection got as far as a primary
\* File or Directory.
SecondaryApplies ==
    /\ co_pc = "done" /\ co_sf.declared
    /\ co_out.status \notin {"DidNotFind", "MultipleMatches"}
    /\ HasPrimary(Result0)

\* C12: a secondary file that is absent fails collection with the missing
\* secondary file error if it is required and is skipped without error if not;
\* one that is present is classified, appended to the primary's secondaryFiles
\* and raises no error, also where builder.outdir is not the host output
\* directory.
C12_SecondaryFiles ==
    SecondaryApplies =>
        /\ (co_sf.onhost = "absent" /\ co_sf.required = "True")
              => co_out.status = "MissingSecondary"
        /\ (co_sf.onhost = "absent" /\ co_sf.required # "True")
              => co_out.status = "ok" /\ co_out.sfAppended = "none"
        /\ co_sf.onhost = "file"
              => co_out.status = "ok" /\ co_out.sfAppended = "File"
        /\ co_sf.onhost = "dir"
              => co_out.status = "ok" /\ co_out.sfAppended = "Directory"

\* C13: whoever calls the collector, a real job or a CallbackJob, checksums of
\* the output Files are computed exactly if the runtime's compute_checksum
\* (default true) asks for them, and the exit code the collector receives is the
\* job's.
C13_ChecksumIffRequested ==
    (co_pc = "done" /\ co_out.status = "ok" /\ co_r # <<>>) =>
        /\ co_out.checksum <=> (getdefault(co_cc) = "True")
        /\ co_out.exitCode = co_rcode

(***************************************************************************)
(* Properties of validation in prepare (SpecPrepare)                       *)
(***************************************************************************)

\* A field prepare has evaluated has a value the validation must refuse.
EvaluatedInvalid ==
    \/ "stderr" \in pr_evaluated
          /\ pr_tool.stderr \in StdPaths
          /\ (pr_tool.stderr.abs \/ \E i \in DOMAIN pr_tool.stderr.segs :
                                       pr_tool.stderr.segs[i] \in {"..", "a..b"})
    \/ "stdout" \in pr_evaluated
          /\ pr_tool.stdout \in StdPaths
          /\ (pr_tool.stdout.abs \/ \E i \in DOMAIN pr_tool.stdout.segs :
                                       pr_tool.stdout.segs[i] \in {"..", "a..b"})
    \/ "timelimit" \in pr_evaluated
          /\ ~(pr_tool.timelimit.k = "int" /\ pr_tool.timelimit.n >= 0)
    \/ "networkAccess" \in pr_evaluated /\ pr_tool.networkAccess.k # "bool"

RECURSIVE sh_lex(_, _, _, _, _)
sh_lex(rest, mode, cur, inword, words) ==
    IF rest = <<>>
      THEN IF mode # "none" THEN <<"unterminated">>
           ELSE IF inword THEN Append(words, cur) ELSE words
    ELSE LET ch == Head(rest)
             t == Tail(rest)
         IN  CASE mode = "single" ->
                    IF ch = "'" THEN sh_lex(t, "none", cur, TRUE, words)
                    ELSE sh_lex(t, mode, Append(cur, ch), TRUE, words)
               [] mode = "double" ->
                    IF ch = "\"" THEN sh_lex(t, "none", cur, TRUE, words)
                    ELSE sh_lex(t, mode, Append(cur, ch), TRUE, words)
               [] OTHER ->
                    IF ch = "'" THEN sh_lex(t, "single", cur, TRUE, words)
                    ELSE IF ch = "\"" THEN sh_lex(t, "double", cur, TRUE, words)
                    ELSE IF ch = " "
                      THEN sh_lex(t, "none", <<>>, FALSE,
                                  IF inword THEN Append(words, cur) ELSE words)
                    ELSE sh_lex(t, "none", Append(cur, ch), TRUE, words)

sh_words(text) == sh_lex(text, "none", <<>>, FALSE, <<>>)

\* Every token of every binding, in binding order.
RECURSIVE AllTokens(_)
AllTokens(bs) == IF bs = <<>> THEN <<>> ELSE Head(bs).arg \o AllTokens(Tail(bs))

\* The tokens as the claim has them in the joined text: shell-quoted unless the
\* binding sets shellQuote to false.
RECURSIVE QuotedTokens(_)
QuotedTokens(bs) ==
    IF bs = <<>> THEN <<>>
    ELSE [i \in DOMAIN Head(bs).arg |->
             IF Head(bs).shellQuote = "False" THEN Head(bs).arg[i]
             ELSE quote(Head(bs).arg[i])]
         \o QuotedTokens(Tail(bs))

\* C15: with ShellCommandRequirement the command line is /bin/sh, -c and the
\* tokens of all bindings in order, each shell-quoted unless its binding sets
\* shellQuote to false, joined by blanks, so that the shell reads every quoted
\* token back as one word; without the requirement it is the unquoted tokens
\* of all bindings in order.
C15_CommandLine ==
    cl_pc = "done" =>
        IF cl_shell
          THEN /\ Len(cl_out) = 3
               /\ cl_out[1] = BinSh /\ cl_out[2] = DashC
               /\ cl_out[3] = join(QuotedTokens(cl_bindings))
               /\ (\A i \in DOMAIN cl_bindings : cl_bindings[i].shellQuote # "False")
                     => sh_words(cl_out[3]) = AllTokens(cl_bindings)
          ELSE cl_out = AllTokens(cl_bindings)

\* C15, the case: ShellCommandRequirement, a quoted binding whose token has a
\* blank and a semicolon, and a binding with shellQuote false.
C15_Witness ==
    /\ cl_pc = "done" /\ cl_shell
    /\ Len(cl_bindings) = 2
    /\ cl_bindings[1] = [arg |-> <<<<"a", " ", "b", ";">>>>, shellQuote |-> "absent"]
    /\ cl_bindings[2].shellQuote = "False"
    /\ cl_out[3][1] = "'"

(***************************************************************************)
(* Properties of staging (SpecStage)                                       *)
(***************************************************************************)

\* ^[A-Za-z0-9._+-]+$ over the characters that occur.
StrictName(bn) == bn # <<>> /\ \A i \in DOMAIN bn : bn[i] \in {"a", "b", ".", "_", "+", "-"}

\* The basename location l ends up staged under: the entryname or basename of
\* the last listing entry that names it, its own basename otherwise.
StagedNames(l) ==
    {st_files[l].basename} \cup
    { IF st_listing.listing[i].entryname # NoName THEN st_listing.listing[i].entryname
      ELSE st_files[l].basename :
        i \in { k \in DOMAIN st_listing.listing : st_listing.listing[k].location = l } }

Adjusted(l) ==
    /\ st_out[l].path = st_pm[l].target
    /\ st_out[l].dirname \o <<"/">> \o st_out[l].basename = st_out[l].path
    /\ LastIndex(st_out[l].basename, "/") = 0
    /\ StrictName(st_out[l].basename)
    /\ st_out[l].class = "File" =>
         st_out[l].nameroot \o st_out[l].nameext = st_out[l].basename

\* C16: staging either raises "Invalid filename" before any job is yielded,
\* which it does whenever the basename of a descriptor does not match
\* ^[A-Za-z0-9._+-]+$ and only when a basename a descriptor is staged under
\* does not match it, or it leaves every descriptor with path equal to the
\* path mapper's target, dirname and basename equal to the split of that path
\* and, for a File, nameroot + nameext equal to basename.
C16_CheckAdjust ==
    st_pc \in {"done", "raised"} =>
      /\ (\E l \in StageLocs : ~StrictName(st_files[l].basename)) => st_pc = "raised"
      /\ st_pc = "raised" =>
           /\ st_err = "Invalid filename"
           /\ \E l \in StageLocs : \E n \in StagedNames(l) : ~StrictName(n)
      /\ st_pc = "done" => \A l \in StageLocs : Adjusted(l)

\* A File with an extension is retargeted into the output directory under an
\* entryname and adjusted, with no descriptor refused.
C16_Witness ==
    /\ st_pc = "done"
    /\ st_listing.required
    /\ \E l \in StageLocs :
         /\ st_files[l].class = "File"
         /\ st_files[l].basename = <<"a", ".", "b">>
         /\ st_out[l].path = OutDir \o <<"a">>
         /\ st_out[l].nameext = <<>>
    /\ \E l \in StageLocs :
         /\ st_out[l].nameext = <<".", "b">>
         /\ st_out[l].dirname = <<"/", "t", "/", "2">>

\* C17: after the listing of InitialWorkDirRequirement is staged, distinct
\* locations of the path mapper do not map to the same target.
C17_MapperInjective ==
    (st_pc = "done" /\ st_listing.required) =>
      \A l1, l2 \in StageLocs : l1 # l2 => st_pm[l1].target # st_pm[l2].target

(***************************************************************************)
(* Properties of the cache locks (SpecCache)                               *)
(***************************************************************************)

\* C18: on a cache hit the shared lock on the status file is not released
\* before the run of the CallbackJob has finished, in whatever order the caller
\* advances the generator and runs the job.
C18_SharedLockHeldForRun ==
    \A p \in Procs : (pc[p] = "hit" /\ ~ranCb[p]) => lock[p] = "shared"

\* The phases of a miss between the upgrade and the wrapped callback.
BeforeCallback == {"build", "yielded", "running", "callback"}

MissStep(p) ==
    /\ (wrapped'[p] /\ pc'[p] \in BeforeCallback) =>
         (lock'[p] = "exclusive" /\ cbCalls'[p] = <<>>)
    /\ (wrapped[p] /\ pc[p] = "callback" /\ pc'[p] # "callback") =>
         /\ processStatus[p] \in ProcessStatuses
         /\ statusFile' = processStatus[p]
         /\ lock'[p] = "none"
         /\ cbCalls'[p] = <<>>
    /\ (wrapped'[p] /\ pc'[p] \in {"invoke", "done"}) => lock'[p] = "none"
    /\ (wrapped'[p] /\ pc'[p] = "done") => cbCalls'[p] = <<processStatus'[p]>>
    /\ (wrapped[p] /\ pc[p] = "done") => cbCalls'[p] = cbCalls[p]

\* C19: on a miss the exclusive lock is held from the upgrade until the wrapped
\* callback runs; the wrapped callback replaces the content of the status file
\* with the status s of the job and closes it, releasing the lock, and only
\* then the original callback is invoked, once, with s; the status file only
\* holds "", success, permanentFail or temporaryFail.
C19_MissLockAndStatus ==
    [][(\A p \in Procs : MissStep(p)) /\ statusFile' \in StatusValues]_vars

\* C19, the case: a job that missed has failed, its status is in the status file,
\* the lock is released and the original callback has been called with it.
C19_Witness ==
    \E p \in Procs :
        /\ wrapped[p] /\ pc[p] = "done"
        /\ processStatus[p] = "permanentFail"
        /\ statusFile = "permanentFail"
        /\ cbCalls[p] = <<"permanentFail">>
        /\ lock[p] = "none"

(***************************************************************************)
(* Properties of the registrations of one prepare (SpecRegister)           *)
(***************************************************************************)

\* The locations of the listing entries that are writable, with in-place update.
MutatedLocs ==
    { rg_listing[i].location :
        i \in { k \in DOMAIN rg_listing : rg_listing[k].writable /\ rg_inplace } }

\* The locations of the other listing entries and of the input files.
ReadLocs ==
    { rg_listing[i].location :
        i \in { k \in DOMAIN rg_listing : ~(rg_listing[k].writable /\ rg_inplace) } }
    \cup { rg_files[i] : i \in DOMAIN rg_files }

\* C20: no location is registered with the manager both as a mutation and as
\* a read by the job, in whatever order the listing is, and the readers map has
\* exactly the locations the job is registered for as a reader; when prepare
\* has registered and yielded the job, every writable listing entry (with
\* in-place update) is registered as a mutation by the job and every other
\* location of the listing and of the inputs as a read.
C20_Registration ==
    /\ \A l \in Locs : ~(mm_mutator[l] = ThisJob /\ ThisJob \in mm_readers[l])
    /\ mj_readers[ThisJob] = { l \in Locs : ThisJob \in mm_readers[l] }
    /\ mj_pc[ThisJob] = "yielded" =>
         /\ \A l \in MutatedLocs : mm_mutator[l] = ThisJob /\ l \in mj_muts[ThisJob]
         /\ \A l \in ReadLocs \ MutatedLocs : ThisJob \in mm_readers[l]
         /\ mj_muts[ThisJob] \cap mj_readers[ThisJob] = {}

\* C20, the case: the listing stages one input writable in place and, after it,
\* another input read-only; the inputs are both in builder.files.
C20_Witness ==
    /\ mj_pc[ThisJob] = "yielded"
    /\ rg_inplace
    /\ Len(rg_listing) = 2
    /\ rg_listing[1].writable /\ ~rg_listing[2].writable
    /\ Len(rg_files) = 2
    /\ mj_muts[ThisJob] = {rg_listing[1].location}
    /\ mj_readers[ThisJob] = {rg_listing[2].location}

(***************************************************************************)
(* Properties of a failed preparation (SpecCache)                          *)
(***************************************************************************)

\* C21: when prepare raises after the lock was upgraded, the status file does
\* not read success for the emptied cache directory (and the lock is released,
\* so that later preparations for the key are not blocked).
C21_FailedPrepareCacheSound ==
    \A p \in Procs :
        (pc[p] = "failed" /\ wrapped[p]) =>
            ~(statusFile = "success" /\ cacheDir = "empty")

(***************************************************************************)
(* Properties of a failed preparation (SpecMutation)                       *)
(***************************************************************************)

\* C22: a preparation that raised has left no reader and no mutator
\* registration of its job in the mutation manager.
C22_FailedPrepareUnregistered ==
    \A j \in Jobs :
        mj_pc[j] = "failed" =>
            \A l \in Locs : j \notin mm_readers[l] /\ mm_mutator[l] # j

(***************************************************************************)
(* Properties of ExpressionJob.run (SpecExpression)                        *)
(***************************************************************************)

\* C23: a run with a callback set invokes it exactly once: with the result and
\* success when evaluation succeeds, with {} and permanentFail when evaluation
\* raises a workflow error; no run reports both success and permanentFail.
C23_CallbackOnce ==
    (ex_pc = "done" /\ ex_callback) =>
      /\ ex_eval \in ExprValues => ex_calls = <<Call(ex_eval, "success")>>
      /\ ex_eval = "WorkflowException" =>
           ex_calls = <<Call(EmptyOutputs, "permanentFail")>>
      /\ ~(\E i, k \in DOMAIN ex_calls :
              ex_calls[i][2] = "success" /\ ex_calls[k][2] = "permanentFail")

====
